---- MODULE Spec2Model ----
(***************************************************************************)
(* go-loadgen: the rate scheduler (calculateInterval), the two executors   *)
(* (ConstantExecutor, RampingExecutor), their Stop, the dispatch tasks and *)
(* the orchestrator EndpointWorkload.Run.                                  *)
(*                                                                         *)
(* Durations computed by calculateInterval are nanoseconds, as in Go's     *)
(* time package.  The clock of the executors (now) counts milliseconds:    *)
(* a ticker of period d nanoseconds fires every d \div Millisecond clock   *)
(* units.  Time advances from one timer event to the next, and only when   *)
(* no goroutine of the program has a step it can take at the current       *)
(* instant; how long CallEndpoint takes and when Stop is called are free.  *)
(***************************************************************************)
EXTENDS Integers, Sequences, FiniteSets, TLC

\* ---------------------------------------------------------------- bounds
\* calculateInterval is applied to every rate 1..MaxRPS (and the test's rates)
MaxRPS == 250
\* phases last 1..MaxSeconds seconds
MaxSeconds == 3
\* a constant phase has StartRPS 0..MaxStartRPS
MaxStartRPS == 2

\* ------------------------------------------------------- program constants
Millisecond == 1000000
Second == 1000000000
MIN_INTERVAL == 10 * Millisecond

\* the deadline of context.Background(): none
NoDeadline == 1000000
\* "not yet" for a recorded time
NoTime == 0 - 1

Max2(a, b) == IF a >= b THEN a ELSE b
Min2(a, b) == IF a <= b THEN a ELSE b
MaxOf(S) == CHOOSE x \in S : \A y \in S : x >= y

\* ------------------------------------------------------- calculateInterval
calculateInterval_NoFloor(rps) ==
    LET interval == Second \div rps
    IN  [interval |-> interval,
         restRPS  |-> IF interval = 0 THEN rps ELSE rps \div (Second \div interval)]

\* interval := max(time.Second/time.Duration(rps), MIN_INTERVAL)
\* restRPS  := rps / int(time.Second/interval)          (rps > 0)
calculateInterval(rps) ==
    LET interval == Max2(Second \div rps, MIN_INTERVAL)
    IN  [interval |-> interval,
         restRPS  |-> rps \div (Second \div interval)]

\* ------------------------------------------------------------------ state
VARIABLES
    now,                \* the clock, in milliseconds since the start
    phases,             \* Config.Phases (times in milliseconds)
    parent,             \* deadline of the ctx handed to Execute
    ex,                 \* per phase: its goroutine, its executor, its Stop caller
    crashed,            \* an unrecovered panic has ended the process
    runPc,              \* Run: "wait" (wg.Wait), "done"; "none" when Run is not used
    runEnd,             \* the time Run returned
    closeCount,         \* calls of Collector.Close
    nGetData,           \* calls of DataProvider.GetData
    nCallEndpoint,      \* calls of Client.CallEndpoint that have returned
    nCollect,           \* calls of Collector.Collect
    collectAfterClose,  \* a Collect call was made after Close
    calcIn,             \* argument of calculateInterval (0: none)
    calcOut,            \* its result, once computed
    gens,               \* the WorkloadPatternGenerators, each with the results of its calls
    cfg,                \* the Config handed to NewEndpointWorkload
    newOut,             \* what NewEndpointWorkload returned
    csv,                \* a CSVCollector, its goroutines and its callers
    long                \* a generation for a run of 2^53 ns

vars == <<now, phases, parent, ex, crashed, runPc, runEnd, closeCount,
          nGetData, nCallEndpoint, nCollect, collectAfterClose, calcIn, calcOut,
          gens, cfg, newOut, csv, long>>

runVars  == <<runPc, runEnd, closeCount>>
taskVars == <<nGetData, nCallEndpoint, nCollect, collectAfterClose>>
calcVars == <<calcIn, calcOut>>
genVars  == <<gens, cfg, newOut, csv, long>>
cfgVars  == <<phases, parent>>

NoCSV == [made |-> FALSE]
NoLong == [called |-> FALSE, weights |-> << >>]
NoCfg == [GenerateWorkload |-> FALSE]
NoNew == [called |-> FALSE]
NoCalc == [interval |-> 0, restRPS |-> 0]

\* ---------------------------------------------------------------- tickers
\* time.Ticker: a period, the next firing time and the one-slot channel C
NoTicker == [period |-> 0, next |-> NoTime, pending |-> FALSE]

NewTicker_FiresAtOnce(d) ==
    [period |-> d \div Millisecond, next |-> now + d \div Millisecond, pending |-> TRUE]

\* time.NewTicker(d), d in nanoseconds: the first tick comes after one period
NewTicker(d) ==
    [period |-> d \div Millisecond, next |-> now + d \div Millisecond, pending |-> FALSE]

\* the ticker fires at time t: a tick is put in C unless one is already there
Fire(tk, t) ==
    IF tk.period > 0 /\ tk.next = t
    THEN [tk EXCEPT !.pending = TRUE, !.next = t + tk.period]
    ELSE tk

Idx == 1..Len(phases)

\* the state of a phase before its goroutine has done anything
InitEx ==
    [pc |-> "sleep", start |-> NoTime, deadline |-> NoTime, ret |-> NoTime,
     cancelled |-> FALSE, t |-> NoTicker, subt |-> NoTicker, old |-> NoTicker,
     ratePc |-> "none", currentRPS |-> 0, restRPS |-> 0, interval |-> 0,
     first |-> TRUE, ticks |-> 0, launched |-> 0, lastLaunch |-> NoTime,
     prevLaunch |-> NoTime, lastSize |-> 0, lastPeriod |-> 0,
     newBursts |-> 0, oldTicks |-> 0, reused |-> FALSE,
     stopPc |-> "idle", stopAt |-> NoTime, stopWhile |-> FALSE, chanClosed |-> FALSE]

\* ------------------------------------------------------- contexts, channels
SubDeadline_NoTimeout(start, duration) == parent

SubDeadline_NoParent(start, duration) == start + duration

\* subCtx, cancel := context.WithTimeout(ctx, phase.Duration): the earlier of
\* the parent's deadline and start + Duration
SubDeadline(start, duration) == Min2(parent, start + duration)

\* <-subCtx.Done() is ready: the deadline has passed or cancel() was called
Done(e) == e.cancelled \/ now >= e.deadline

\* <-e.stopChan is ready: Stop is blocked in its send, or the channel is closed
StopReady(e) == e.stopPc = "sending" \/ e.chanClosed

\* the receive from stopChan: it takes the value Stop is sending (Stop goes on
\* to close the channel), or it reads the closed channel
RecvStop(e) == IF e.chanClosed THEN e ELSE [e EXCEPT !.stopPc = "closing"]

\* for range restRPS { go func() {...}() }
Burst(e) ==
    IF e.restRPS > 0
    THEN [e EXCEPT !.launched = @ + e.restRPS, !.lastLaunch = now,
                   !.prevLaunch = e.lastLaunch, !.lastSize = e.restRPS]
    ELSE e

StartDue_AfterPrevious(p) ==
    /\ now >= phases[p].StartTime
    /\ \A q \in Idx : q < p => ex[q].pc = "returned"

StartDue_Immediately(p) == TRUE

\* <-time.After(phase.StartTime) has fired (the caller of Execute is there)
StartDue(p) == now >= phases[p].StartTime

\* ------------------------------------------------ ConstantExecutor.Execute
\* the phases given to the second Execute of a reused executor
Phase2s ==
    { [Type |-> "constant", StartTime |-> 0, Duration |-> d,
       StartRPS |-> rps, EndRPS |-> 0, Step |-> 0] :
          d \in { k * (Second \div Millisecond) : k \in 1..MaxSeconds },
          rps \in 1..MaxStartRPS }

\* entry: e.rps, subCtx, calculateInterval(e.rps), the ticker
ConstantExecute(p) ==
    /\ ~crashed
    /\ ex[p].pc = "sleep"
    /\ phases[p].Type = "constant"
    /\ StartDue(p)
    /\ IF phases[p].StartRPS = 0
       THEN \* time.Second/time.Duration(0): integer divide by zero
            /\ crashed' = TRUE
            /\ ex' = [ex EXCEPT ![p].pc = "panicked", ![p].start = now]
       ELSE LET c == calculateInterval(phases[p].StartRPS)
            IN  /\ ex' = [ex EXCEPT ![p] =
                      [@ EXCEPT !.pc = "loop", !.start = now,
                                !.deadline = SubDeadline(now, phases[p].Duration),
                                !.interval = c.interval, !.restRPS = c.restRPS,
                                !.t = NewTicker(c.interval)]]
                /\ UNCHANGED crashed
    /\ UNCHANGED <<now, cfgVars, runVars, taskVars, calcVars, genVars>>

\* a second Execute(ctx, phase2) on the ConstantExecutor that a Stop has ended:
\* the same entry code, on the same e.stopChan
ConstantExecuteAgain(p) ==
    /\ ~crashed
    /\ phases[p].Type = "constant"
    /\ ex[p].pc = "returned"
    /\ ex[p].stopPc = "returned"
    /\ ~ex[p].reused
    /\ \E ph2 \in Phase2s :
          LET c == calculateInterval(ph2.StartRPS)
          IN  /\ phases' = [phases EXCEPT ![p] = ph2]
              /\ ex' = [ex EXCEPT ![p] =
                    [@ EXCEPT !.pc = "loop", !.start = now, !.ret = NoTime,
                              !.reused = TRUE, !.cancelled = FALSE,
                              !.deadline = SubDeadline(now, ph2.Duration),
                              !.interval = c.interval, !.restRPS = c.restRPS,
                              !.t = NewTicker(c.interval)]]
    /\ UNCHANGED <<now, parent, crashed, runVars, taskVars, calcVars, genVars>>

\* case <-subCtx.Done(): return     (deferred cancel())
ConstantDone(p) ==
    /\ ~crashed
    /\ phases[p].Type = "constant"
    /\ ex[p].pc = "loop"
    /\ Done(ex[p])
    /\ ex' = [ex EXCEPT ![p] =
              [@ EXCEPT !.pc = "returned", !.ret = now, !.cancelled = TRUE, !.t = NoTicker]]
    /\ UNCHANGED <<now, cfgVars, crashed, runVars, taskVars, calcVars, genVars>>

\* case <-e.stopChan: return
ConstantStopped(p) ==
    /\ ~crashed
    /\ phases[p].Type = "constant"
    /\ ex[p].pc = "loop"
    /\ StopReady(ex[p])
    /\ ex' = [ex EXCEPT ![p] =
              [RecvStop(@) EXCEPT !.pc = "returned", !.ret = now, !.cancelled = TRUE,
                                  !.t = NoTicker]]
    /\ UNCHANGED <<now, cfgVars, crashed, runVars, taskVars, calcVars, genVars>>

ConstantTick_AfterTasks(p) ==
    /\ ~crashed
    /\ phases[p].Type = "constant"
    /\ ex[p].pc = "loop"
    /\ ex[p].t.pending
    /\ nCollect = ex[p].launched
    /\ ex' = [ex EXCEPT ![p] = [Burst(@) EXCEPT !.t.pending = FALSE, !.ticks = @ + 1,
                                               !.lastPeriod = ex[p].t.period]]
    /\ UNCHANGED <<now, cfgVars, crashed, runVars, taskVars, calcVars, genVars>>

\* case <-t.C: launch restRPS dispatch tasks
ConstantTick(p) ==
    /\ ~crashed
    /\ phases[p].Type = "constant"
    /\ ex[p].pc = "loop"
    /\ ex[p].t.pending
    /\ ex' = [ex EXCEPT ![p] = [Burst(@) EXCEPT !.t.pending = FALSE, !.ticks = @ + 1,
                                               !.lastPeriod = ex[p].t.period]]
    /\ UNCHANGED <<now, cfgVars, crashed, runVars, taskVars, calcVars, genVars>>

\* ------------------------------------------------- RampingExecutor.Execute
InitialRPS_ClampsToTwo(startRPS) == IF startRPS = 0 THEN 2 ELSE startRPS

\* currentRPS := &e.startRPS; if *currentRPS == 0 { *currentRPS = 1 }
InitialRPS(startRPS) == IF startRPS = 0 THEN 1 ELSE startRPS

\* entry: the fields, subCtx, currentRPS (0 becomes 1), both tickers, and the
\* rate-update goroutine is started
RampingExecute(p) ==
    /\ ~crashed
    /\ ex[p].pc = "sleep"
    /\ phases[p].Type = "variable"
    /\ StartDue(p)
    /\ LET cur == InitialRPS(phases[p].StartRPS)
           c   == calculateInterval(cur)
       IN  ex' = [ex EXCEPT ![p] =
                 [@ EXCEPT !.pc = "loop", !.start = now,
                           !.deadline = SubDeadline(now, phases[p].Duration),
                           !.currentRPS = cur, !.first = TRUE,
                           !.t = NewTicker(Second),
                           !.interval = c.interval, !.restRPS = c.restRPS,
                           !.subt = NewTicker(c.interval),
                           !.ratePc = "loop"]]
    /\ UNCHANGED <<now, cfgVars, crashed, runVars, taskVars, calcVars, genVars>>

\* the ticker the dispatch loop's select is waiting on: the one subt held when
\* the select was entered
Sel(e) == IF e.old # NoTicker THEN e.old ELSE e.subt

\* dispatch loop, case <-subCtx.Done(): return     (deferred cancel())
RampingDone(p) ==
    /\ ~crashed
    /\ phases[p].Type = "variable"
    /\ ex[p].pc = "loop"
    /\ Done(ex[p])
    /\ ex' = [ex EXCEPT ![p] =
              [@ EXCEPT !.pc = "returned", !.ret = now, !.cancelled = TRUE,
                        !.subt = NoTicker, !.old = NoTicker]]
    /\ UNCHANGED <<now, cfgVars, crashed, runVars, taskVars, calcVars, genVars>>

\* dispatch loop, case <-e.stopChan: return
RampingStopped(p) ==
    /\ ~crashed
    /\ phases[p].Type = "variable"
    /\ ex[p].pc = "loop"
    /\ StopReady(ex[p])
    /\ ex' = [ex EXCEPT ![p] =
              [RecvStop(@) EXCEPT !.pc = "returned", !.ret = now, !.cancelled = TRUE,
                                  !.subt = NoTicker, !.old = NoTicker]]
    /\ UNCHANGED <<now, cfgVars, crashed, runVars, taskVars, calcVars, genVars>>

\* dispatch loop, case <-subt.C: launch restRPS dispatch tasks; the next select
\* reads subt again
RampingTick(p) ==
    /\ ~crashed
    /\ phases[p].Type = "variable"
    /\ ex[p].pc = "loop"
    /\ Sel(ex[p]).pending
    /\ ex' = [ex EXCEPT ![p] =
              IF @.old # NoTicker
              THEN [Burst(@) EXCEPT !.old = NoTicker, !.ticks = @ + 1,
                                    !.lastPeriod = ex[p].old.period,
                                    !.oldTicks = @ + 1]
              ELSE [Burst(@) EXCEPT !.subt.pending = FALSE, !.ticks = @ + 1,
                                    !.lastPeriod = ex[p].subt.period,
                                    !.newBursts = @ + 1]]
    /\ UNCHANGED <<now, cfgVars, crashed, runVars, taskVars, calcVars, genVars>>

Ramping_Always(e, ph) == TRUE

\* the ramp has not reached endRPS in its direction
Ramping(e, ph) ==
    \/ ph.Step > 0 /\ e.currentRPS < ph.EndRPS
    \/ ~(ph.Step > 0) /\ e.currentRPS > ph.EndRPS

\* rate-update goroutine, case <-t.C: step currentRPS; a rate <= 0 leaves the
\* select; otherwise first = false and interval, restRPS are recomputed
RateTick(p) ==
    /\ ~crashed
    /\ ex[p].ratePc = "loop"
    /\ ex[p].t.pending
    /\ LET e   == ex[p]
           cur == IF ~e.first /\ Ramping(e, phases[p])
                  THEN e.currentRPS + phases[p].Step ELSE e.currentRPS
       IN  ex' = [ex EXCEPT ![p] =
                 IF cur <= 0
                 THEN [e EXCEPT !.t.pending = FALSE, !.currentRPS = cur]
                 ELSE [e EXCEPT !.t.pending = FALSE, !.currentRPS = cur,
                                !.first = FALSE,
                                !.interval = calculateInterval(cur).interval,
                                !.restRPS = calculateInterval(cur).restRPS,
                                !.ratePc = "newticker"]]
    /\ UNCHANGED <<now, cfgVars, crashed, runVars, taskVars, calcVars, genVars>>

\* rate-update goroutine: subt = time.NewTicker(interval); a dispatch loop
\* that is in its select keeps waiting on the ticker it read
RateNewTicker(p) ==
    /\ ~crashed
    /\ ex[p].ratePc = "newticker"
    /\ ex' = [ex EXCEPT ![p] =
              IF @.pc = "loop"
              THEN [@ EXCEPT !.ratePc = "loop",
                             !.old = Sel(ex[p]),
                             !.subt = NewTicker(ex[p].interval),
                             !.newBursts = 0, !.oldTicks = 0]
              ELSE [@ EXCEPT !.ratePc = "loop"]]
    /\ UNCHANGED <<now, cfgVars, crashed, runVars, taskVars, calcVars, genVars>>

\* rate-update goroutine, case <-subCtx.Done(): return
RateDone(p) ==
    /\ ~crashed
    /\ ex[p].ratePc = "loop"
    /\ Done(ex[p])
    /\ ex' = [ex EXCEPT ![p] = [@ EXCEPT !.ratePc = "exited", !.t = NoTicker]]
    /\ UNCHANGED <<now, cfgVars, crashed, runVars, taskVars, calcVars, genVars>>

\* rate-update goroutine, case <-e.stopChan: return
RateStopped(p) ==
    /\ ~crashed
    /\ ex[p].ratePc = "loop"
    /\ StopReady(ex[p])
    /\ ex' = [ex EXCEPT ![p] = [RecvStop(@) EXCEPT !.ratePc = "exited", !.t = NoTicker]]
    /\ UNCHANGED <<now, cfgVars, crashed, runVars, taskVars, calcVars, genVars>>

\* ------------------------------------------------------------------- Stop
\* Stop is called: it blocks in e.stopChan <- struct{}{}
StopCall(p) ==
    /\ ~crashed
    /\ ex[p].stopPc = "idle"
    /\ ex' = [ex EXCEPT ![p] =
              [@ EXCEPT !.stopPc = "sending", !.stopAt = now,
                        !.stopWhile = (ex[p].pc = "loop")]]
    /\ UNCHANGED <<now, cfgVars, crashed, runVars, taskVars, calcVars, genVars>>

StopClose_Buffered(p) ==
    /\ ~crashed
    /\ ex[p].stopPc \in {"sending", "closing"}
    /\ ex' = [ex EXCEPT ![p] = [@ EXCEPT !.stopPc = "returned", !.chanClosed = TRUE]]
    /\ UNCHANGED <<now, cfgVars, crashed, runVars, taskVars, calcVars, genVars>>

\* the send was received: close(e.stopChan) and Stop returns
StopClose(p) ==
    /\ ~crashed
    /\ ex[p].stopPc = "closing"
    /\ ex' = [ex EXCEPT ![p] = [@ EXCEPT !.stopPc = "returned", !.chanClosed = TRUE]]
    /\ UNCHANGED <<now, cfgVars, crashed, runVars, taskVars, calcVars, genVars>>

\* --------------------------------------------------------- dispatch tasks
RECURSIVE SumLaunched(_)
SumLaunched(n) == IF n = 0 THEN 0 ELSE ex[n].launched + SumLaunched(n - 1)

\* dispatch tasks launched so far, by all executors
TotalLaunched == SumLaunched(Len(phases))

\* a dispatch task: e.dataProvider.GetData()
GetData ==
    /\ ~crashed
    /\ nGetData < TotalLaunched
    /\ nGetData' = nGetData + 1
    /\ UNCHANGED <<now, cfgVars, ex, crashed, runVars, nCallEndpoint, nCollect,
                   collectAfterClose, calcVars, genVars>>

\* a dispatch task: e.client.CallEndpoint(ctx, data) returns, after any delay
CallEndpoint ==
    /\ ~crashed
    /\ nCallEndpoint < nGetData
    /\ nCallEndpoint' = nCallEndpoint + 1
    /\ UNCHANGED <<now, cfgVars, ex, crashed, runVars, nGetData, nCollect,
                   collectAfterClose, calcVars, genVars>>

Collect_WithoutCall ==
    /\ ~crashed
    /\ nCollect < nGetData
    /\ nCollect' = nCollect + 1
    /\ collectAfterClose' = (collectAfterClose \/ closeCount > 0)
    /\ UNCHANGED <<now, cfgVars, ex, crashed, runVars, nGetData, nCallEndpoint, calcVars, genVars>>

\* a dispatch task: e.collector.Collect(result)
Collect ==
    /\ ~crashed
    /\ nCollect < nCallEndpoint
    /\ nCollect' = nCollect + 1
    /\ collectAfterClose' = (collectAfterClose \/ closeCount > 0)
    /\ UNCHANGED <<now, cfgVars, ex, crashed, runVars, nGetData, nCallEndpoint, calcVars, genVars>>

\* -------------------------------------------------------- EndpointWorkload.Run
\* the phase goroutine: phase.Type selects no executor, executor stays nil and
\* executor.Execute(ctx, phase) is a nil dereference
NilExecute(p) ==
    /\ ~crashed
    /\ ex[p].pc = "sleep"
    /\ phases[p].Type \notin {"constant", "variable"}
    /\ StartDue(p)
    /\ crashed' = TRUE
    /\ ex' = [ex EXCEPT ![p].pc = "panicked", ![p].start = now]
    /\ UNCHANGED <<now, cfgVars, runVars, taskVars, calcVars, genVars>>

AllPhasesDone_Any == \E p \in Idx : ex[p].pc = "returned"

\* wg.Wait() returns: every phase goroutine has run its deferred wg.Done()
AllPhasesDone == \A p \in Idx : ex[p].pc = "returned"

\* wg.Wait() returned; e.Collector.Close(); Run returns
RunClose ==
    /\ ~crashed
    /\ runPc = "wait"
    /\ AllPhasesDone
    /\ runPc' = "done"
    /\ runEnd' = now
    /\ closeCount' = closeCount + 1
    /\ UNCHANGED <<now, cfgVars, ex, crashed, taskVars, calcVars, genVars>>

\* ------------------------------------------------------------------ time
\* a goroutine of the program has a step to take at this instant
Busy ==
    \/ runPc = "wait" /\ AllPhasesDone
    \/ \E p \in Idx :
          LET e == ex[p] IN
          \/ e.pc = "sleep" /\ StartDue(p)
          \/ e.pc = "loop" /\ (Done(e) \/ StopReady(e))
          \/ e.pc = "loop" /\ phases[p].Type = "constant" /\ e.t.pending
          \/ e.pc = "loop" /\ phases[p].Type = "variable" /\ Sel(e).pending
          \/ e.ratePc = "loop" /\ (Done(e) \/ StopReady(e) \/ e.t.pending)
          \/ e.ratePc = "newticker"
          \/ e.stopPc = "closing"

\* the times at which a timer the program waits on fires
Timers ==
    UNION { LET e == ex[p] IN
            (IF e.pc = "sleep" THEN {phases[p].StartTime} ELSE {})
            \cup (IF e.pc = "loop" \/ e.ratePc = "loop" THEN {e.deadline} ELSE {})
            \cup (IF e.pc = "loop" \/ e.ratePc = "loop" THEN {e.t.next} ELSE {})
            \cup (IF e.pc = "loop" THEN {e.subt.next, e.old.next} ELSE {})
          : p \in Idx }

\* time passes up to the next timer; the tickers that are due put their tick
Advance ==
    /\ ~crashed
    /\ ~Busy
    /\ \E t \in Timers :
          /\ t > now
          /\ \A u \in Timers : u > now => t <= u
          /\ now' = t
          /\ ex' = [p \in Idx |->
                    [ex[p] EXCEPT !.t = Fire(@, t), !.subt = Fire(@, t), !.old = Fire(@, t)]]
    /\ UNCHANGED <<cfgVars, crashed, runVars, taskVars, calcVars, genVars>>

\* ---------------------------------------------------------------- inputs
Durations == { k * (Second \div Millisecond) : k \in 1..MaxSeconds }

\* <<StartRPS, EndRPS, Step>> of the ramps
Ramps == { <<1, 3, 1>>, <<3, 1, 0 - 1>>, <<2, 0, 0 - 3>>, <<0, 2, 1>>, <<2, 3, 1>> }

ConstantPhase(st, d, rps) ==
    [Type |-> "constant", StartTime |-> st, Duration |-> d,
     StartRPS |-> rps, EndRPS |-> 0, Step |-> 0]

RampingPhase(st, d, r) ==
    [Type |-> "variable", StartTime |-> st, Duration |-> d,
     StartRPS |-> r[1], EndRPS |-> r[2], Step |-> r[3]]

\* the phases given to one executor by a direct caller of Execute
ExecPhases ==
    { ConstantPhase(0, d, rps) : d \in Durations, rps \in 0..MaxStartRPS }
    \cup { RampingPhase(0, d, r) : d \in Durations, r \in Ramps }

\* the deadline of the caller's context: 0.5s, 1.5s or none
ParentDeadlines == { 500, 1500, NoDeadline }

\* the rates calculateInterval is applied to
RPSInputs == (1..MaxRPS) \cup { 10000000, 100000000 }

\* ------------------------------------------------------- specifications
InitCommon ==
    /\ now = 0
    /\ crashed = FALSE
    /\ runEnd = NoTime
    /\ closeCount = 0
    /\ nGetData = 0
    /\ nCallEndpoint = 0
    /\ nCollect = 0
    /\ collectAfterClose = FALSE
    /\ calcOut = NoCalc

\* no generator and no construction in the executor specifications
InitNoGen ==
    /\ gens = << >>
    /\ cfg = NoCfg
    /\ newOut = NoNew
    /\ csv = NoCSV
    /\ long = NoLong

\* calculateInterval alone
InitCalc ==
    /\ InitCommon
    /\ InitNoGen
    /\ calcIn \in RPSInputs
    /\ phases = << >>
    /\ parent = NoDeadline
    /\ ex = << >>
    /\ runPc = "none"

Calculate ==
    /\ calcIn > 0
    /\ calcOut = NoCalc
    /\ calcOut' = calculateInterval(calcIn)
    /\ UNCHANGED <<now, cfgVars, ex, crashed, runVars, taskVars, calcIn, genVars>>

NextCalc == Calculate

SpecCalc == InitCalc /\ [][NextCalc]_vars

\* one executor, its Execute called at time 0 by a caller that may call Stop
InitExec ==
    /\ InitCommon
    /\ InitNoGen
    /\ calcIn = 0
    /\ \E ph \in ExecPhases : phases = <<ph>>
    /\ parent \in ParentDeadlines
    /\ ex = <<InitEx>>
    /\ runPc = "none"

NextExec ==
    \/ \E p \in Idx : ConstantExecute(p)
    \/ \E p \in Idx : ConstantDone(p)
    \/ \E p \in Idx : ConstantStopped(p)
    \/ \E p \in Idx : ConstantTick(p)
    \/ \E p \in Idx : RampingExecute(p)
    \/ \E p \in Idx : RampingDone(p)
    \/ \E p \in Idx : RampingStopped(p)
    \/ \E p \in Idx : RampingTick(p)
    \/ \E p \in Idx : RateTick(p)
    \/ \E p \in Idx : RateNewTicker(p)
    \/ \E p \in Idx : RateDone(p)
    \/ \E p \in Idx : RateStopped(p)
    \/ \E p \in Idx : StopCall(p)
    \/ \E p \in Idx : StopClose(p)
    \/ GetData
    \/ CallEndpoint
    \/ Collect
    \/ Advance

SpecExec == InitExec /\ [][NextExec]_vars

\* one RampingExecutor whose ramp changes the per-tick count: 50 rps (20ms, 1)
\* to 250 rps (10ms, 2); the dispatch tasks' own steps are left out
RaceRamps == { <<50, 250, 200>> }

InitRace ==
    /\ InitCommon
    /\ InitNoGen
    /\ calcIn = 0
    /\ \E d \in Durations, r \in RaceRamps : phases = <<RampingPhase(0, d, r)>>
    /\ parent = NoDeadline
    /\ ex = <<InitEx>>
    /\ runPc = "none"

NextRace ==
    \/ \E p \in Idx : RampingExecute(p)
    \/ \E p \in Idx : RampingDone(p)
    \/ \E p \in Idx : RampingTick(p)
    \/ \E p \in Idx : RateTick(p)
    \/ \E p \in Idx : RateNewTicker(p)
    \/ \E p \in Idx : RateDone(p)
    \/ Advance

SpecRace == InitRace /\ [][NextRace]_vars

\* one ConstantExecutor, stopped by a Stop and then given a second phase
InitReuse ==
    /\ InitCommon
    /\ InitNoGen
    /\ calcIn = 0
    /\ \E d \in Durations, rps \in 1..MaxStartRPS : phases = <<ConstantPhase(0, d, rps)>>
    /\ parent = NoDeadline
    /\ ex = <<InitEx>>
    /\ runPc = "none"

NextReuse ==
    \/ \E p \in Idx : ConstantExecute(p)
    \/ \E p \in Idx : ConstantExecuteAgain(p)
    \/ \E p \in Idx : ConstantDone(p)
    \/ \E p \in Idx : ConstantStopped(p)
    \/ \E p \in Idx : ConstantTick(p)
    \/ \E p \in Idx : StopCall(p)
    \/ \E p \in Idx : StopClose(p)
    \/ Advance

SpecReuse == InitReuse /\ [][NextReuse]_vars


\* (GenerateWorkload = false: any non-empty list of phases)
RunStartTimes == { 0, 500, 1500 }

RunDurations == { 1000 }

\* Run is given one or two phases
PhaseCounts == { 1, 2 }

RunMaxDurations == { 1000, 3000 }

RunPhases ==
    { ConstantPhase(st, d, rps) : st \in RunStartTimes, d \in RunDurations,
                                  rps \in 0..MaxStartRPS }
    \cup { RampingPhase(st, d, r) : st \in RunStartTimes, d \in RunDurations,
                                    r \in { <<2, 0, 0 - 3>> } }
    \cup { [Type |-> "", StartTime |-> st, Duration |-> 1000,
            StartRPS |-> 1, EndRPS |-> 0, Step |-> 0] : st \in { 0 } }

\* Run has derived ctx (deadline MaxDuration) and started one goroutine per phase
InitRun ==
    /\ InitCommon
    /\ InitNoGen
    /\ calcIn = 0
    /\ \E n \in PhaseCounts : phases \in [1..n -> RunPhases]
    /\ parent \in RunMaxDurations
    /\ ex = [p \in 1..Len(phases) |-> InitEx]
    /\ runPc = "wait"

NextRun ==
    \/ \E p \in Idx : ConstantExecute(p)
    \/ \E p \in Idx : ConstantDone(p)
    \/ \E p \in Idx : ConstantTick(p)
    \/ \E p \in Idx : RampingExecute(p)
    \/ \E p \in Idx : RampingDone(p)
    \/ \E p \in Idx : RampingTick(p)
    \/ \E p \in Idx : RateTick(p)
    \/ \E p \in Idx : RateNewTicker(p)
    \/ \E p \in Idx : RateDone(p)
    \/ \E p \in Idx : NilExecute(p)
    \/ RunClose
    \/ GetData
    \/ CallEndpoint
    \/ Collect
    \/ Advance

SpecRun == InitRun /\ [][NextRun]_vars

\* ================================================================ generator
\* ---- arithmetic of workload.go: time.Duration (int64 nanoseconds) and float64

Pow2(n) == 2 ^ n

\* 2^56 modulo m, for m < 2^15
Pow2_56Mod(m) == ((Pow2(28) % m) * (Pow2(28) % m)) % m

\* a/b < c/d for a, c >= 0 and b, d > 0, without forming the cross products
RECURSIVE FracLess(_, _, _, _)
FracLess(a, b, c, d) ==
    IF a \div b # c \div d THEN a \div b < c \div d
    ELSE IF c % d = 0 THEN FALSE
    ELSE IF a % b = 0 THEN TRUE
    ELSE FracLess(d, c % d, b, a % b)

\* a time.Duration is the pair <<ms, ns>>: ms * 10^6 + ns nanoseconds, 0 <= ns < 10^6
DurBase == 1000000
Dur(ms, ns) == <<ms + ns \div DurBase, ns % DurBase>>
DurSeconds(sec) == <<sec * 1000, 0>>
DurAdd(a, b) == Dur(a[1] + b[1], a[2] + b[2])
DurMul(a, n) == Dur(a[1] * n, a[2] * n)
\* a / time.Duration(n) for n > 0: integer division truncates
DurDiv(a, n) == <<a[1] \div n, ((a[1] % n) * DurBase + a[2]) \div n>>
DurPred(a) == IF a[2] > 0 THEN <<a[1], a[2] - 1>> ELSE <<a[1] - 1, DurBase - 1>>

\* a float64 near a multiple of 0.1 is the pair <<k, e>>: the exact value
\* k/10 + e * 2^-56 / 10, at least 1/16.  F64AtLeastPow(v, j) is v >= 2^j / 16;
\* F64Spacing is the distance, in units of 2^-56, between neighbouring float64
\* values in the binade of v
F64Zero == <<0, 0>>
F64One == <<10, 0>>
F64AtLeastPow(v, j) == 16 * v[1] > 10 * Pow2(j) \/ (16 * v[1] = 10 * Pow2(j) /\ v[2] >= 0)
F64Spacing(v) == Pow2(Cardinality({ j \in 1..6 : F64AtLeastPow(v, j) }))

\* round to nearest float64, ties to even (IEEE 754, 53-bit significand)
F64Round(v) ==
    IF v = F64Zero THEN v
    ELSE LET S == 10 * F64Spacing(v)
             Mod(m) == ((((v[1] % m) * Pow2_56Mod(m) + v[2]) % m) + m) % m
             r == Mod(S)
             odd == Mod(2 * S) >= S
         IN  IF 2 * r < S \/ (2 * r = S /\ ~odd)
             THEN <<v[1], v[2] - r>>
             ELSE <<v[1], v[2] + S - r>>

\* the float64 of a decimal literal k/10
F64Tenths(k) == F64Round(<<k, 0>>)
\* float64 addition
F64Add(v, w) == F64Round(<<v[1] + w[1], v[2] + w[2]>>)

RECURSIVE Odd(_)
Odd(n) == IF n > 0 /\ n % 2 = 0 THEN Odd(n \div 2) ELSE n
RECURSIVE FloorLog2(_)
FloorLog2(n) == IF n < 2 THEN 0 ELSE 1 + FloorLog2(n \div 2)

\* time.Duration(float64(d) * w) for d a whole number of milliseconds and
\* w = F64Tenths(k): the exact product d*k/10 is a whole number N of
\* nanoseconds; the float64 product is N, or the next float64 below N when the
\* error of w, scaled by d, exceeds half the spacing at N; the conversion to
\* int64 truncates
DurTimesF64(d, w) ==
    IF w = F64Zero THEN <<0, 0>>
    ELSE LET k == w[1]
             N == Dur((d[1] * k) \div 10, ((d[1] * k) % 10) * (DurBase \div 10))
             A == Odd(d[1] * k) * 3125
         IN  IF w[2] < 0 /\ FracLess(8 * k, 0 - w[2], A, Pow2(FloorLog2(A)))
             THEN DurPred(N)
             ELSE N

\* ---- the seeded source (math/rand/v2, a PCG seeded with (seed, seed)) at
\* reduced width: a 16-bit congruential state whose high byte is the output
RandMod == 65536
RandOut == 256
NewPCG(seed) == seed % RandMod
PCGNext(s) == (s * 25173 + 13849) % RandMod
Uint(s) == s \div RandOut
\* r.IntN(n), n > 0: the output scaled into 0..n-1
IntN(s, n) == (Uint(s) * n) \div RandOut

Digits == <<"0", "1", "2", "3", "4", "5", "6", "7", "8", "9">>
RECURSIVE Itoa(_)
Itoa(i) == IF i < 10 THEN Digits[i + 1] ELSE Itoa(i \div 10) \o Digits[(i % 10) + 1]

NewWorkloadPatternGenerator(seed, maxDuration, patterns) ==
    [seed |-> seed, random |-> NewPCG(seed), maxDuration |-> maxDuration,
     patterns |-> patterns, results |-> << >>, draws |-> 0]

getRandInt_FromMax(s, min, max) ==
    LET lo == IF min > max THEN max ELSE min
        hi == IF min > max THEN min ELSE max
        s1 == PCGNext(s)
    IN  [val |-> IntN(s1, hi - lo + 1) + hi, random |-> s1]

\* draws one integer; the result and the advanced source
getRandInt(s, min, max) ==
    LET lo == IF min > max THEN max ELSE min
        hi == IF min > max THEN min ELSE max
        s1 == PCGNext(s)
    IN  [val |-> IntN(s1, hi - lo + 1) + lo, random |-> s1]

RECURSIVE SumWeights(_, _)
SumWeights(patterns, n) ==
    IF n = 0 THEN F64Zero ELSE F64Add(SumWeights(patterns, n - 1), patterns[n].Weight)

WeightsError == "pattern weights must sum to 1.0"

calculatePatternTimes_AssignsFirst(maxDuration, patterns) ==
    IF Len(patterns) = 0 THEN [err |-> "", patterns |-> patterns]
    ELSE LET total == SumWeights(patterns, Len(patterns))
             equal == [i \in DOMAIN patterns |->
                          [patterns[i] EXCEPT !.totalTime = DurDiv(maxDuration, Len(patterns))]]
             weighted == [i \in DOMAIN patterns |->
                             [patterns[i] EXCEPT !.totalTime =
                                 DurTimesF64(maxDuration, patterns[i].Weight)]]
         IN  IF total = F64Zero THEN [err |-> "", patterns |-> equal]
             ELSE IF total # F64One THEN [err |-> WeightsError, patterns |-> weighted]
             ELSE [err |-> "", patterns |-> weighted]

\* the error ("" for nil) and the patterns with their totalTime assigned
calculatePatternTimes(maxDuration, patterns) ==
    IF Len(patterns) = 0 THEN [err |-> "", patterns |-> patterns]
    ELSE LET total == SumWeights(patterns, Len(patterns))
         IN  IF total = F64Zero
             THEN [err |-> "",
                   patterns |-> [i \in DOMAIN patterns |->
                       [patterns[i] EXCEPT !.totalTime = DurDiv(maxDuration, Len(patterns))]]]
             ELSE IF total # F64One
             THEN [err |-> WeightsError, patterns |-> patterns]
             ELSE [err |-> "",
                   patterns |-> [i \in DOMAIN patterns |->
                       [patterns[i] EXCEPT !.totalTime =
                           DurTimesF64(maxDuration, patterns[i].Weight)]]]

GenPhase_ConsultsRamping(pattern, i, phaseDuration, st) ==
    LET s1 == PCGNext(st.random)
        a == getRandInt(s1, pattern.StartRPS[1], pattern.StartRPS[2])
        b == getRandInt(a.random, pattern.EndRPS[1], pattern.EndRPS[2])
        c == getRandInt(b.random, pattern.Step[1], pattern.Step[2])
    IN  [random |-> c.random,
         draws |-> st.draws + 4,
         currentTime |-> DurAdd(st.currentTime, phaseDuration),
         panic |-> FALSE,
         workload |-> Append(st.workload,
             [Name |-> pattern.Name \o "_" \o Itoa(i),
              Type |-> IF Uint(s1) * 10 < pattern.ConstantLikelihood * RandOut
                       THEN "constant"
                       ELSE IF Uint(s1) * 10 < (pattern.ConstantLikelihood
                                                + pattern.RampingLikelihood) * RandOut
                            THEN "variable" ELSE "constant",
              StartTime |-> st.currentTime,
              Duration |-> phaseDuration,
              StartRPS |-> a.val, EndRPS |-> b.val, Step |-> c.val])]

\* one iteration of the inner loop of GenerateWorkload (lines 67-88)
GenPhase(pattern, i, phaseDuration, st) ==
    LET s1 == PCGNext(st.random)
        a == getRandInt(s1, pattern.StartRPS[1], pattern.StartRPS[2])
        b == getRandInt(a.random, pattern.EndRPS[1], pattern.EndRPS[2])
        c == getRandInt(b.random, pattern.Step[1], pattern.Step[2])
    IN  [random |-> c.random,
         draws |-> st.draws + 4,
         currentTime |-> DurAdd(st.currentTime, phaseDuration),
         panic |-> FALSE,
         workload |-> Append(st.workload,
             [Name |-> pattern.Name \o "_" \o Itoa(i),
              Type |-> IF Uint(s1) * 10 < pattern.ConstantLikelihood * RandOut
                       THEN "constant" ELSE "variable",
              StartTime |-> st.currentTime,
              Duration |-> phaseDuration,
              StartRPS |-> a.val, EndRPS |-> b.val, Step |-> c.val])]

RECURSIVE GenPhases(_, _, _, _)
GenPhases(pattern, n, phaseDuration, st) ==
    IF n <= 0 THEN st
    ELSE GenPhase(pattern, n - 1, phaseDuration, GenPhases(pattern, n - 1, phaseDuration, st))

GenPattern_RestartsClock(pattern, st) ==
    LET pc == getRandInt(st.random, pattern.PhaseCount[1], pattern.PhaseCount[2])
        st1 == [st EXCEPT !.random = pc.random, !.draws = @ + 1, !.currentTime = <<0, 0>>]
    IN  IF pc.val = 0 THEN [st1 EXCEPT !.panic = TRUE]
        ELSE GenPhases(pattern, pc.val, DurDiv(pattern.totalTime, pc.val), st1)

GenPattern_DividesByMax(pattern, st) ==
    LET pc == getRandInt(st.random, pattern.PhaseCount[1], pattern.PhaseCount[2])
        st1 == [st EXCEPT !.random = pc.random, !.draws = @ + 1]
    IN  IF pc.val = 0 THEN [st1 EXCEPT !.panic = TRUE]
        ELSE GenPhases(pattern, pc.val,
                       DurDiv(pattern.totalTime,
                              Max2(pattern.PhaseCount[1], pattern.PhaseCount[2])), st1)

\* one iteration of the outer loop (lines 63-89); a phase count of 0 divides by zero
GenPattern(pattern, st) ==
    LET pc == getRandInt(st.random, pattern.PhaseCount[1], pattern.PhaseCount[2])
        st1 == [st EXCEPT !.random = pc.random, !.draws = @ + 1]
    IN  IF pc.val = 0 THEN [st1 EXCEPT !.panic = TRUE]
        ELSE GenPhases(pattern, pc.val, DurDiv(pattern.totalTime, pc.val), st1)

RECURSIVE GenPatterns(_, _, _)
GenPatterns(patterns, n, st) ==
    IF n = 0 THEN st
    ELSE LET prev == GenPatterns(patterns, n - 1, st)
         IN  IF prev.panic THEN prev ELSE GenPattern(patterns[n], prev)

\* GenerateWorkload on generator g: the returned list and error, whether it
\* panicked, and the generator afterwards
GenerateWorkloadOf(g) ==
    LET t == calculatePatternTimes(g.maxDuration, g.patterns)
        st == GenPatterns(t.patterns, Len(t.patterns),
                  [random |-> g.random, draws |-> g.draws, currentTime |-> <<0, 0>>,
                   panic |-> FALSE, workload |-> << >>])
    IN  IF t.err # ""
        THEN [workload |-> << >>, err |-> t.err, panic |-> FALSE,
              g |-> [g EXCEPT !.patterns = t.patterns]]
        ELSE [workload |-> st.workload, err |-> "", panic |-> st.panic,
              g |-> [g EXCEPT !.patterns = t.patterns, !.random = st.random,
                              !.draws = st.draws]]

\* ---- GenerateWorkload as an operation on a generator
\* the first generator is called up to MaxCalls times, any other once
MaxCalls == 2
CallsOf(id) == IF id = 1 THEN MaxCalls ELSE 1

GenerateWorkload(id) ==
    /\ ~crashed
    /\ Len(gens[id].results) < CallsOf(id)
    /\ LET r == GenerateWorkloadOf(gens[id])
       IN  IF r.panic
           THEN /\ crashed' = TRUE
                /\ gens' = [gens EXCEPT ![id] = r.g]
           ELSE /\ gens' = [gens EXCEPT ![id] =
                       [r.g EXCEPT !.results = Append(@,
                           [workload |-> r.workload, err |-> r.err,
                            drawn |-> r.g.draws - gens[id].draws])]]
                /\ UNCHANGED crashed
    /\ UNCHANGED <<now, cfgVars, ex, runVars, taskVars, calcVars, cfg, newOut, csv, long>>

\* ---- inputs of the generator
Seeds == {42, 12345}
GenMaxDurations == { DurSeconds(sec) : sec \in {3, 30, 100} }
WeightTenths == {0, 1, 2, 3, 5, 7, 10}
TemplateNames == <<"first", "second", "third">>

RECURSIVE SumSeq(_)
SumSeq(ws) == IF Len(ws) = 0 THEN 0 ELSE ws[1] + SumSeq(Tail(ws))

\* weights in tenths: all zero, summing to 1.0, or summing to 0.9
WeightLists ==
    { ws \in UNION { [1..n -> WeightTenths] : n \in 0..Len(TemplateNames) } :
        SumSeq(ws) \in {0, 9, 10} }

\* the ranges of a template: PhaseCount, ConstantLikelihood (tenths), Parameters
Shapes ==
    { [PhaseCount |-> <<2, 2>>, ConstantLikelihood |-> 10, RampingLikelihood |-> 10,
       StartRPS |-> <<1, 5>>, EndRPS |-> <<10, 20>>, Step |-> <<1, 2>>],
      [PhaseCount |-> <<1, 1>>, ConstantLikelihood |-> 0, RampingLikelihood |-> 0,
       StartRPS |-> <<5, 1>>, EndRPS |-> <<2, 2>>, Step |-> <<0 - 2, 1>>],
      [PhaseCount |-> <<2, 3>>, ConstantLikelihood |-> 5, RampingLikelihood |-> 5,
       StartRPS |-> <<1, 10>>, EndRPS |-> <<30, 20>>, Step |-> <<1, 10>>],
      [PhaseCount |-> <<3, 1>>, ConstantLikelihood |-> 5, RampingLikelihood |-> 2,
       StartRPS |-> <<0, 3>>, EndRPS |-> <<0, 0>>, Step |-> <<1, 0 - 1>>],
      [PhaseCount |-> <<0, 1>>, ConstantLikelihood |-> 3, RampingLikelihood |-> 7,
       StartRPS |-> <<1, 1>>, EndRPS |-> <<1, 2>>, Step |-> <<0, 0>>] }

Template(name, w, sh) ==
    [Name |-> name, PhaseCount |-> sh.PhaseCount,
     ConstantLikelihood |-> sh.ConstantLikelihood,
     RampingLikelihood |-> sh.RampingLikelihood, Weight |-> F64Tenths(w),
     StartRPS |-> sh.StartRPS, EndRPS |-> sh.EndRPS, Step |-> sh.Step,
     totalTime |-> <<0, 0>>]

\* the templates of ws, in their order or reversed
Orders == {"given", "reversed"}
PatternList(ws, sh, order) ==
    [i \in 1..Len(ws) |->
        LET j == IF order = "given" THEN i ELSE Len(ws) + 1 - i
        IN  Template(TemplateNames[j], ws[j], sh)]

InitQuiet ==
    /\ InitCommon
    /\ calcIn = 0
    /\ phases = << >>
    /\ parent = NoDeadline
    /\ ex = << >>
    /\ runPc = "none"

\* two generators over the same templates and maxDuration: equal or different
\* seeds, the same or the reversed template order
InitGen ==
    /\ InitQuiet
    /\ cfg = NoCfg
    /\ newOut = NoNew
    /\ csv = NoCSV
    /\ long = NoLong
    /\ \E ws \in WeightLists, sh \in Shapes, d \in GenMaxDurations,
          seed \in Seeds, other \in Seeds, order \in Orders :
          gens = << NewWorkloadPatternGenerator(seed, d, PatternList(ws, sh, "given")),
                    NewWorkloadPatternGenerator(other, d, PatternList(ws, sh, order)) >>

NextGen == \E id \in DOMAIN gens : GenerateWorkload(id)

SpecGen == InitGen /\ [][NextGen]_vars

\* ---- GenerateWorkload for a run of maxDuration = 2^53 ns (about 104 days) and
\* two templates of one phase each whose weights are the float64 values
\* 1/2 + j * 2^-53.  A weight is its offset j; a duration is the pair <<h, j>>:
\* h * 2^52 + j nanoseconds
LongOffsets == (0 - 6)..6
LongMaxDuration == <<2, 0>>
LongAdd(a, b) == <<a[1] + b[1], a[2] + b[2]>>
LongLeq(a, b) == a[1] < b[1] \/ (a[1] = b[1] /\ a[2] <= b[2])

\* total += pattern.Weight over the two weights, as the offset of the float64
\* sum from 1.0 in units of 2^-53: below 1.0 the spacing is one unit and the
\* sum is exact; from 1.0 on it is two units, ties go to the even significand
F64SumHalves(j1, j2) ==
    LET j == j1 + j2
    IN  IF j <= 0 \/ j % 2 = 0 THEN j
        ELSE IF ((j - 1) \div 2) % 2 = 0 THEN j - 1 ELSE j + 1

\* calculatePatternTimes: total != 1.0 is the error; otherwise
\* time.Duration(float64(maxDuration) * Weight) = 2^53 * (1/2 + j * 2^-53),
\* the whole number 2^52 + j, exact in float64
calculatePatternTimesLong(ws) ==
    IF F64SumHalves(ws[1], ws[2]) # 0
    THEN [err |-> WeightsError, totalTime |-> << >>]
    ELSE [err |-> "", totalTime |-> [i \in DOMAIN ws |-> <<1, ws[i]>>]]

\* GenerateWorkload with PhaseCount {1, 1}: phaseDuration = totalTime / 1, the
\* phases back to back from 0
GenerateWorkloadLong ==
    /\ ~crashed
    /\ ~long.called
    /\ LET t == calculatePatternTimesLong(long.weights)
       IN  long' = [long EXCEPT !.called = TRUE] @@
                   [err |-> t.err,
                    workload |->
                        IF t.err # "" THEN << >>
                        ELSE << [StartTime |-> <<0, 0>>, Duration |-> t.totalTime[1]],
                                [StartTime |-> t.totalTime[1], Duration |-> t.totalTime[2]] >>]
    /\ UNCHANGED <<now, cfgVars, ex, crashed, runVars, taskVars, calcVars, gens, cfg, newOut, csv>>

InitLong ==
    /\ InitQuiet
    /\ gens = << >>
    /\ cfg = NoCfg
    /\ newOut = NoNew
    /\ csv = NoCSV
    /\ \E j1 \in LongOffsets, j2 \in LongOffsets :
          long = [called |-> FALSE, weights |-> <<j1, j2>>]

NextLong == GenerateWorkloadLong

SpecLong == InitLong /\ [][NextLong]_vars

\* ---- NewEndpointWorkload (workload.go 138-157)
NilPatterns == [nil |-> TRUE, list |-> << >>]
SomePatterns(l) == [nil |-> FALSE, list |-> l]
ErrNoPatterns == "workload generation is enabled but no patterns provided"
ErrNoPhases == "workload generation is disabled but no phases provided"

NewEndpointWorkload ==
    /\ ~crashed
    /\ newOut = NoNew
    /\ IF cfg.GenerateWorkload
       THEN IF cfg.Patterns.nil
            THEN /\ newOut' = [called |-> TRUE, ew |-> FALSE, err |-> ErrNoPatterns,
                               given |-> cfg.Phases]
                 /\ UNCHANGED <<cfg, crashed>>
            ELSE LET r == GenerateWorkloadOf(NewWorkloadPatternGenerator(
                              cfg.Seed, cfg.MaxDuration, cfg.Patterns.list))
                 IN  IF r.panic
                     THEN crashed' = TRUE /\ UNCHANGED <<cfg, newOut>>
                     ELSE /\ cfg' = [cfg EXCEPT !.Phases = r.workload]
                          /\ newOut' = [called |-> TRUE, ew |-> TRUE, err |-> "",
                                        given |-> cfg.Phases]
                          /\ UNCHANGED crashed
       ELSE IF Len(cfg.Phases) = 0
            THEN /\ newOut' = [called |-> TRUE, ew |-> FALSE, err |-> ErrNoPhases,
                               given |-> cfg.Phases]
                 /\ UNCHANGED <<cfg, crashed>>
            ELSE /\ newOut' = [called |-> TRUE, ew |-> TRUE, err |-> "",
                               given |-> cfg.Phases]
                 /\ UNCHANGED <<cfg, crashed>>
    /\ UNCHANGED <<now, cfgVars, ex, runVars, taskVars, calcVars, gens, csv, long>>

GivenPhases ==
    { << >>,
      <<ConstantPhase(0, 2000, 1)>>,
      <<ConstantPhase(0, 1000, 1), RampingPhase(1000, 1000, <<1, 3, 1>>)>> }

Configs ==
    { [GenerateWorkload |-> gw, Seed |-> seed, MaxDuration |-> d,
       Patterns |-> pt, Phases |-> ph] :
        gw \in BOOLEAN, seed \in Seeds, d \in GenMaxDurations,
        pt \in {NilPatterns} \cup
               { SomePatterns(PatternList(ws, sh, "given")) :
                    ws \in {<< >>, <<0>>, <<7, 3>>, <<5, 3, 1>>}, sh \in Shapes },
        ph \in GivenPhases }

InitNew ==
    /\ InitQuiet
    /\ gens = << >>
    /\ newOut = NoNew
    /\ csv = NoCSV
    /\ long = NoLong
    /\ cfg \in Configs

NextNew == NewEndpointWorkload

SpecNew == InitNew /\ [][NextNew]_vars

\* ================================================================ CSVCollector
\* collector.go: a csv.Writer (a buffer in front of the file), guarded by mu;
\* RunFlush flushes on its ticker; callers Collect concurrently and Close
MaxItems == 2
MaxCloses == 2
BufRows == 3
Collectors == {1, 2}

\* testCSVData of goroutine g, item j (0-based), as in TestCSVCollector_ConcurrentCollect
ItemID(g, j) == (g - 1) * MaxItems + j
CSVHeaders == <<"id", "message", "value">>
CSVRecord(g, j) == <<Itoa(ItemID(g, j)), "", Itoa((g - 1) + j) \o ".00">>
\* csv.Writer.Write: the fields joined by commas, one line
RECURSIVE CSVLine(_)
CSVLine(fields) ==
    IF Len(fields) = 1 THEN fields[1] ELSE fields[1] \o "," \o CSVLine(Tail(fields))

\* NewCSVCollector: the file is created empty, RunFlush is started
NewCSVCollector ==
    [made |-> TRUE, mu |-> "", headerWritten |-> FALSE, buf |-> << >>, file |-> << >>,
     fileClosed |-> FALSE, cancelled |-> FALSE, flushPc |-> "select", flushed |-> FALSE,
     col |-> [g \in Collectors |-> [pc |-> "idle", n |-> 0]],
     closePc |-> "idle", closes |-> 0,
     started |-> 0, returned |-> << >>, startedAtClose |-> 0 - 1, returnedAtClose |-> 0 - 1]

MuFree_Always(c) == TRUE

\* c.mu.Lock() can proceed
MuFree(c) == c.mu = ""

\* writer.Flush(): the buffer goes to the file; a closed file takes nothing
FlushWriter(c) ==
    IF c.fileClosed THEN c ELSE [c EXCEPT !.file = c.file \o c.buf, !.buf = << >>]

\* writer.Write(row): a full buffer is flushed first
WriteRow(c, row) ==
    IF Len(c.buf) < BufRows THEN [c EXCEPT !.buf = Append(@, row)]
    ELSE [FlushWriter(c) EXCEPT !.buf = Append(@, row)]

CsvUnchanged == UNCHANGED <<now, cfgVars, ex, crashed, runVars, taskVars, calcVars, gens, cfg, newOut, long>>

\* a caller enters Collect and waits for the mutex
CollectCall(g) ==
    /\ csv.col[g].pc = "idle"
    /\ csv.col[g].n < MaxItems
    /\ csv' = [csv EXCEPT !.col[g].pc = "lock", !.started = @ + 1]
    /\ CsvUnchanged

CollectLock(g) ==
    /\ csv.col[g].pc = "lock"
    /\ MuFree(csv)
    /\ csv' = [csv EXCEPT !.col[g].pc = "check", !.mu = "collect"]
    /\ CsvUnchanged

\* if !c.headerWritten
CollectCheck(g) ==
    /\ csv.col[g].pc = "check"
    /\ csv' = [csv EXCEPT !.col[g].pc = IF csv.headerWritten THEN "record" ELSE "header"]
    /\ CsvUnchanged

\* Write(headers); c.headerWritten = true
CollectHeader(g) ==
    /\ csv.col[g].pc = "header"
    /\ csv' = [WriteRow(csv, CSVLine(CSVHeaders)) EXCEPT
                  !.headerWritten = TRUE, !.col[g].pc = "record"]
    /\ CsvUnchanged

\* Write(record); the deferred Unlock; return
CollectRecord(g) ==
    /\ csv.col[g].pc = "record"
    /\ csv' = [WriteRow(csv, CSVLine(CSVRecord(g, csv.col[g].n))) EXCEPT
                  !.col[g].pc = "idle", !.col[g].n = @ + 1, !.mu = "",
                  !.returned = Append(@, <<g, csv.col[g].n>>)]
    /\ CsvUnchanged

CloseCall ==
    /\ csv.closePc = "idle"
    /\ csv.closes < MaxCloses
    /\ csv' = [csv EXCEPT !.closePc = "lock",
                  !.startedAtClose = IF csv.closes = 0 THEN csv.started ELSE @,
                  !.returnedAtClose = IF csv.closes = 0 THEN Len(csv.returned) ELSE @]
    /\ CsvUnchanged

CloseLock ==
    /\ csv.closePc = "lock"
    /\ MuFree(csv)
    /\ csv' = [csv EXCEPT !.closePc = "body", !.mu = "close"]
    /\ CsvUnchanged

\* c.cancel(); c.writer.Flush(); c.file.Close(); the deferred Unlock; return
CloseBody ==
    /\ csv.closePc = "body"
    /\ csv' = [FlushWriter(csv) EXCEPT !.cancelled = TRUE, !.fileClosed = TRUE,
                  !.mu = "", !.closePc = "idle", !.closes = @ + 1]
    /\ CsvUnchanged

\* RunFlush, case <-t.C
FlushTick ==
    /\ csv.flushPc = "select"
    /\ csv' = [csv EXCEPT !.flushPc = "lock"]
    /\ CsvUnchanged

FlushLock ==
    /\ csv.flushPc = "lock"
    /\ MuFree(csv)
    /\ csv' = [csv EXCEPT !.flushPc = "flush", !.mu = "flush"]
    /\ CsvUnchanged

FlushDo ==
    /\ csv.flushPc = "flush"
    /\ csv' = [FlushWriter(csv) EXCEPT !.flushPc = "select", !.mu = "", !.flushed = TRUE]
    /\ CsvUnchanged

\* RunFlush, case <-ctx.Done(): return
FlushExit ==
    /\ csv.flushPc = "select"
    /\ csv.cancelled
    /\ csv' = [csv EXCEPT !.flushPc = "exited"]
    /\ CsvUnchanged

InitCSV ==
    /\ InitQuiet
    /\ gens = << >>
    /\ cfg = NoCfg
    /\ newOut = NoNew
    /\ csv = NewCSVCollector
    /\ long = NoLong

NextCSV ==
    \/ \E g \in Collectors : CollectCall(g)
    \/ \E g \in Collectors : CollectLock(g)
    \/ \E g \in Collectors : CollectCheck(g)
    \/ \E g \in Collectors : CollectHeader(g)
    \/ \E g \in Collectors : CollectRecord(g)
    \/ CloseCall
    \/ CloseLock
    \/ CloseBody
    \/ FlushTick
    \/ FlushLock
    \/ FlushDo
    \/ FlushExit

SpecCSV == InitCSV /\ [][NextCSV]_vars

\* one ConstantExecutor and its bursts, without the dispatch tasks' own steps:
\* rates below and above 1/MIN_INTERVAL
TickRates == { 0, 1, 2, 3, 4, 50, 100, 150, 250 }

InitTicks ==
    /\ InitCommon
    /\ InitNoGen
    /\ calcIn = 0
    /\ \E d \in Durations, rps \in TickRates : phases = <<ConstantPhase(0, d, rps)>>
    /\ parent \in ParentDeadlines
    /\ ex = <<InitEx>>
    /\ runPc = "none"

NextTicks ==
    \/ \E p \in Idx : ConstantExecute(p)
    \/ \E p \in Idx : ConstantDone(p)
    \/ \E p \in Idx : ConstantTick(p)
    \/ Advance

SpecTicks == InitTicks /\ [][NextTicks]_vars

\* ================================================================ claims
\* the phase of executor p ends, by its own duration, at this time
PhaseEnd(p) == ex[p].start + phases[p].Duration

\* C1: calculateInterval(rps) is (1s/rps, 1) for 1 <= rps < 100 and
\* (10ms, rps/100) for rps >= 100; in particular the six rates of the test
C1_CalculateInterval ==
    calcOut # NoCalc =>
        /\ calcIn < 100 => calcOut.interval = Second \div calcIn /\ calcOut.restRPS = 1
        /\ calcIn >= 100 => calcOut.interval = 10 * Millisecond
                             /\ calcOut.restRPS = calcIn \div 100
        /\ calcIn = 4 => calcOut = [interval |-> 250 * Millisecond, restRPS |-> 1]
        /\ calcIn = 10 => calcOut = [interval |-> 100 * Millisecond, restRPS |-> 1]
        /\ calcIn = 20 => calcOut = [interval |-> 50 * Millisecond, restRPS |-> 1]
        /\ calcIn = 50 => calcOut = [interval |-> 20 * Millisecond, restRPS |-> 1]
        /\ calcIn = 10000000 => calcOut = [interval |-> 10 * Millisecond, restRPS |-> 100000]
        /\ calcIn = 100000000 => calcOut = [interval |-> 10 * Millisecond, restRPS |-> 1000000]

C1_Witness == calcIn = 100000000 /\ calcOut.restRPS = 1000000

\* C2: for every rate >= 1 the pair reproduces the rate:
\* perTickCount x (1 second / tickInterval) = targetRPS
C2_ReproducesRate ==
    calcOut # NoCalc => calcOut.restRPS * (Second \div calcOut.interval) = calcIn

\* C3: with no Stop and a parent context that outlives the phase, an Execute
\* that is in its loop has not run past phase.Duration, and an Execute that
\* has returned returned exactly when phase.Duration had elapsed; also for a
\* ramp whose rate has dropped to <= 0
C3_RunsForDuration ==
    \A p \in Idx :
        (ex[p].stopPc = "idle" /\ ex[p].start # NoTime /\ parent >= PhaseEnd(p)) =>
            /\ ex[p].pc = "loop" => now <= PhaseEnd(p)
            /\ ex[p].pc = "returned" => ex[p].ret = PhaseEnd(p)
            /\ now < PhaseEnd(p) => ex[p].pc # "returned"

C3_Witness ==
    \E p \in Idx :
        /\ phases[p].Type = "variable"
        /\ ex[p].stopPc = "idle"
        /\ ex[p].pc = "returned"
        /\ ex[p].currentRPS <= 0
        /\ parent >= PhaseEnd(p)
        /\ ex[p].ret = ex[p].start + 3000

\* C4: a Stop called while Execute is running returns and makes Execute return
\* at once: Stop is never left blocked in its send with no loop of the
\* executor left to receive it, and the Execute it was called on returns at
\* the time of the call and launches nothing afterwards
C4_StopEndsExecute ==
    \A p \in Idx :
        ex[p].stopWhile =>
            /\ ~(/\ ex[p].stopPc = "sending"
                 /\ ex[p].pc = "returned"
                 /\ ex[p].ratePc \in {"none", "exited"})
            /\ ex[p].pc = "returned" => ex[p].ret = ex[p].stopAt
            /\ ex[p].pc = "returned" /\ ex[p].launched > 0 => ex[p].lastLaunch <= ex[p].ret

\* C5: when the parent's deadline comes before the end of the phase, Execute
\* does not run past the parent's deadline, returns at it (unless stopped
\* before) and launches no dispatch task after it
C5_ParentDeadlineCuts ==
    \A p \in Idx :
        (ex[p].start # NoTime /\ parent < PhaseEnd(p)) =>
            /\ ex[p].pc = "loop" => now <= parent
            /\ ex[p].pc = "returned" => ex[p].ret <= parent
            /\ ex[p].pc = "returned" /\ ex[p].stopPc = "idle" => ex[p].ret = parent
            /\ ex[p].launched > 0 => ex[p].lastLaunch <= parent

C5_Witness ==
    \E p \in Idx :
        /\ phases[p].Type = "variable"
        /\ phases[p].Duration = 2000
        /\ parent = 1500
        /\ ex[p].pc = "returned"
        /\ ex[p].stopPc = "idle"
        /\ ex[p].ret = 1500
        /\ ex[p].launched > 0

\* C6: Run is bounded by the global deadline, for every schedule: every phase
\* task has finished and Run has returned no later than MaxDuration
C6_RunBoundedByDeadline ==
    /\ runPc = "done" => runEnd <= parent
    /\ \A p \in Idx : ex[p].pc = "returned" => ex[p].ret <= parent

\* no goroutine of Run or of a phase can take a step, now or at a later time
Stuck == crashed \/ (~Busy /\ \A t \in Timers : t <= now)

\* C7: Run always terminates: when Run and the phase goroutines have no step
\* left, whatever the dispatch tasks are doing, Run has called Close and returned
C7_RunTerminates == Stuck => (runPc = "done" /\ closeCount = 1)

\* the windows of all phases lie inside MaxDuration
WindowsInside == \A p \in Idx : phases[p].StartTime + phases[p].Duration <= parent

\* C8: overlapping phases execute concurrently: with all windows inside
\* MaxDuration every phase starts at its own StartTime and ends Duration
\* later, whatever the other phases are doing, a constant phase ticking at its
\* own rate meanwhile, and Run lasts the maximum of StartTime + Duration
C8_PhasesConcurrent ==
    WindowsInside =>
        /\ \A p \in Idx :
              /\ ex[p].pc \in {"loop", "returned"} => ex[p].start = phases[p].StartTime
              /\ ex[p].pc = "returned" =>
                    ex[p].ret = phases[p].StartTime + phases[p].Duration
              /\ ex[p].pc = "sleep" => now <= phases[p].StartTime
              /\ ex[p].pc = "loop" /\ phases[p].Type = "constant" =>
                    /\ ex[p].t.period = (Second \div phases[p].StartRPS) \div Millisecond
                    /\ ex[p].restRPS = 1
        /\ runPc = "done" =>
              runEnd = MaxOf({ phases[p].StartTime + phases[p].Duration : p \in Idx })

C8_Witness ==
    /\ Len(phases) = 2
    /\ phases[1].StartTime = 0
    /\ phases[2].StartTime = 500
    /\ runPc = "done"
    /\ runEnd = 1500
    /\ ex[1].launched > 0
    /\ ex[2].launched > 0
    /\ ex[1].ret > ex[2].start

\* C9: Collector.Close is called at most once, only after every phase task
\* has returned from Execute, and exactly once by the time Run returns
C9_CloseOnceAfterJoin ==
    /\ closeCount <= 1
    /\ closeCount > 0 => \A p \in Idx : ex[p].pc = "returned"
    /\ runPc = "done" => closeCount = 1

C9_Witness ==
    /\ Len(phases) = 2
    /\ closeCount = 1
    /\ \E p, q \in Idx :
          /\ p # q
          /\ ex[p].ret = parent
          /\ parent < phases[p].StartTime + phases[p].Duration
          /\ ex[p].launched > 0
          /\ ex[q].ret = phases[q].StartTime + phases[q].Duration

\* C10: no Collect call of a dispatch task happens after Collector.Close
C10_NoCollectAfterClose == ~collectAfterClose

\* the claim's tickInterval (in clock units) and perTickCount of rate r
ClaimInterval(r) == IF r < 100 THEN (Second \div r) \div Millisecond ELSE 10
ClaimPerTick(r) == IF r < 100 THEN 1 ELSE r \div 100

\* C11: a constant phase run to its end without stop or cancellation launches
\* bursts only on ticks, the first one tickInterval after the start, each of
\* perTickCount tasks; in all perTickCount x n with
\* floor(D/tickInterval) - 1 <= n <= floor(D/tickInterval)
C11_ConstantBursts ==
    \A p \in Idx :
        (/\ phases[p].Type = "constant"
         /\ ex[p].pc \in {"loop", "returned"}
         /\ ex[p].stopPc = "idle"
         /\ parent >= PhaseEnd(p)) =>
            LET r == phases[p].StartRPS
                I == ClaimInterval(r)
                n == phases[p].Duration \div I
            IN  /\ ex[p].launched = ClaimPerTick(r) * ex[p].ticks
                /\ ex[p].ticks <= (now - ex[p].start) \div I
                /\ now < ex[p].start + I => ex[p].launched = 0
                /\ ex[p].launched > 0 =>
                      /\ ex[p].lastLaunch > ex[p].start
                      /\ (ex[p].lastLaunch - ex[p].start) % I = 0
                /\ ex[p].pc = "returned" => ex[p].ticks \in (n - 1)..n
                /\ (ex[p].pc = "returned" /\ r = 2 /\ phases[p].Duration = 2000) =>
                      ex[p].launched \in 3..4

C11_Witness ==
    \E p \in Idx :
        /\ phases[p].StartRPS = 250
        /\ phases[p].Duration = 1000
        /\ parent = NoDeadline
        /\ ex[p].pc = "returned"
        /\ ex[p].ticks = 99
        /\ ex[p].launched = 198

\* C12: NewEndpointWorkload returns its error, and no workload, when there is
\* nothing to run: generation disabled and no phases, or generation enabled
\* and no patterns (nil or empty)
C12_NothingToRun ==
    newOut.called =>
        /\ (~cfg.GenerateWorkload /\ Len(newOut.given) = 0) =>
              /\ newOut.err = "workload generation is disabled but no phases provided"
              /\ ~newOut.ew
        /\ (cfg.GenerateWorkload /\ (cfg.Patterns.nil \/ Len(cfg.Patterns.list) = 0)) =>
              /\ newOut.err = "workload generation is enabled but no patterns provided"
              /\ ~newOut.ew

\* C13: construction fails whenever both or neither of patterns/phases are
\* populated, whatever GenerateWorkload is, and on success the caller's phases
\* are the workload's phases
C13_ExactlyOnePopulated ==
    newOut.called =>
        LET hasPatterns == ~cfg.Patterns.nil /\ Len(cfg.Patterns.list) > 0
            hasPhases == Len(newOut.given) > 0
        IN  /\ (hasPatterns <=> hasPhases) => (newOut.err # "" /\ ~newOut.ew)
            /\ newOut.ew => cfg.Phases = newOut.given

\* what a generator was built from: the seed, maxDuration and the templates
\* as handed to NewWorkloadPatternGenerator
GenInputs(g) ==
    [seed |-> g.seed, maxDuration |-> g.maxDuration,
     patterns |-> [i \in DOMAIN g.patterns |-> [g.patterns[i] EXCEPT !.totalTime = <<0, 0>>]]]

\* C14: two generations with identical (seed, maxDuration, patterns) yield
\* identical phase lists, on two fresh generators and on one generator asked twice
C14_Deterministic ==
    \A i \in DOMAIN gens, j \in DOMAIN gens :
        \A a \in DOMAIN gens[i].results, b \in DOMAIN gens[j].results :
            GenInputs(gens[i]) = GenInputs(gens[j]) =>
                gens[i].results[a] = gens[j].results[b]

\* the decimal weights (tenths) of a generator's templates, and the templates by name
WeightsOf(g) == [i \in DOMAIN g.patterns |-> g.patterns[i].Weight[1]]
TimeOf(g, name) == { g.patterns[i].totalTime : i \in { k \in DOMAIN g.patterns : g.patterns[k].Name = name } }

\* C15: after generation, n templates of weight 0 each have maxDuration / n;
\* templates whose weights sum to 1.0 have maxDuration x weight; and the time
\* of a template does not depend on the order of the templates
C15_Allocation ==
    /\ \A id \in DOMAIN gens :
          LET g == gens[id]
              n == Len(g.patterns)
          IN  (Len(g.results) > 0 /\ n > 0) =>
                /\ (\A i \in 1..n : WeightsOf(g)[i] = 0) =>
                      \A i \in 1..n : g.patterns[i].totalTime = DurDiv(g.maxDuration, n)
                /\ SumSeq(WeightsOf(g)) = 10 =>
                      \A i \in 1..n : g.patterns[i].totalTime =
                          Dur((g.maxDuration[1] * WeightsOf(g)[i]) \div 10,
                              ((g.maxDuration[1] * WeightsOf(g)[i]) % 10) * 100000)
                /\ (g.maxDuration = DurSeconds(100) /\ WeightsOf(g) = <<5, 3, 2>>) =>
                      /\ g.patterns[1].totalTime = DurSeconds(50)
                      /\ g.patterns[2].totalTime = DurSeconds(30)
                      /\ g.patterns[3].totalTime = DurSeconds(20)
    /\ \A i \in DOMAIN gens, j \in DOMAIN gens :
          (/\ Len(gens[i].results) > 0
           /\ Len(gens[j].results) > 0
           /\ gens[i].maxDuration = gens[j].maxDuration
           /\ { GenInputs(gens[i]).patterns[k] : k \in DOMAIN gens[i].patterns }
                = { GenInputs(gens[j]).patterns[k] : k \in DOMAIN gens[j].patterns }) =>
              \A k \in DOMAIN gens[i].patterns :
                  TimeOf(gens[j], gens[i].patterns[k].Name) = {gens[i].patterns[k].totalTime}

\* C16: weights that are not all zero and do not sum to 1.0 make generation
\* fail with "pattern weights must sum to 1.0": no phase list, no random
\* number drawn, no template given an allocated time
C16_InvalidWeights ==
    \A id \in DOMAIN gens :
        LET g == gens[id]
        IN  \A a \in DOMAIN g.results :
                ((\E i \in DOMAIN g.patterns : WeightsOf(g)[i] # 0)
                    /\ SumSeq(WeightsOf(g)) # 10) =>
                    /\ g.results[a].err = "pattern weights must sum to 1.0"
                    /\ g.results[a].workload = << >>
                    /\ g.results[a].drawn = 0
                    /\ g.draws = 0
                    /\ g.random = NewPCG(g.seed)
                    /\ \A i \in DOMAIN g.patterns : g.patterns[i].totalTime = <<0, 0>>

C16_Witness ==
    \E id \in DOMAIN gens :
        /\ WeightsOf(gens[id]) = <<5, 3, 1>>
        /\ Len(gens[id].results) = 1
        /\ gens[id].results[1].err = "pattern weights must sum to 1.0"

\* the templates of g that a phase named by GenerateWorkload can come from
TemplatesOf(g, ph) ==
    { p \in DOMAIN g.patterns :
        \E i \in 0..9 : ph.Name = g.patterns[p].Name \o "_" \o Digits[i + 1] }

\* C17: the phases of a generated list follow the template order and lie back
\* to back: the first starts at 0 and each other one where its predecessor ends
C17_BackToBack ==
    \A id \in DOMAIN gens :
        \A a \in DOMAIN gens[id].results :
            LET w == gens[id].results[a].workload
            IN  /\ Len(w) > 0 => w[1].StartTime = <<0, 0>>
                /\ \A k \in 2..Len(w) :
                      w[k].StartTime = DurAdd(w[k - 1].StartTime, w[k - 1].Duration)
                /\ \A k \in 1..Len(w), l \in 1..Len(w) :
                      k < l => \A p \in TemplatesOf(gens[id], w[k]),
                                  q \in TemplatesOf(gens[id], w[l]) : p <= q
                /\ \A k \in 1..Len(w) : TemplatesOf(gens[id], w[k]) # {}

C17_Witness ==
    /\ Len(gens[2].results) = 1
    /\ WeightsOf(gens[2]) = <<3, 7>>
    /\ gens[2].patterns[1].Name = "second"
    /\ LET w == gens[2].results[1].workload
       IN  /\ Len(w) >= 4
           /\ w[1].Name = "second_0"
           /\ \E k \in 3..Len(w) - 1 :
                /\ w[k].Name = "first_0"
                /\ w[k].StartTime = DurMul(w[1].Duration, k - 1)
                /\ w[k + 1].StartTime = DurAdd(w[k].StartTime, w[k].Duration)
                /\ w[k].Duration # w[1].Duration

\* the summed Duration of the first n phases of w that come from template p of g
RECURSIVE SumOfTemplate(_, _, _, _)
SumOfTemplate(g, w, p, n) ==
    IF n = 0 THEN <<0, 0>>
    ELSE DurAdd(SumOfTemplate(g, w, p, n - 1),
                IF p \in TemplatesOf(g, w[n]) THEN w[n].Duration ELSE <<0, 0>>)

\* C18: in a generated list the durations of the phases of each template sum
\* to exactly the time allocated to the template
C18_DurationsSum ==
    \A id \in DOMAIN gens :
        \A a \in DOMAIN gens[id].results :
            gens[id].results[a].err = "" =>
                \A p \in DOMAIN gens[id].patterns :
                    SumOfTemplate(gens[id], gens[id].results[a].workload, p,
                                  Len(gens[id].results[a].workload))
                        = gens[id].patterns[p].totalTime

InRange(v, range) == Min2(range[1], range[2]) <= v /\ v <= Max2(range[1], range[2])
RangeEnds == (0 - 3)..3

\* C19: every draw from an IntRange lies between the smaller and the larger of
\* its two ends, whichever is called min, and is that value when they are equal;
\* so every generated StartRPS, EndRPS and Step lies in its template's range
C19_DrawInRange ==
    \A id \in DOMAIN gens :
        /\ \A min \in RangeEnds, max \in RangeEnds :
              /\ InRange(getRandInt(gens[id].random, min, max).val, <<min, max>>)
              /\ min = max => getRandInt(gens[id].random, min, max).val = min
        /\ \A a \in DOMAIN gens[id].results :
              LET w == gens[id].results[a].workload
              IN  \A k \in DOMAIN w :
                      \A p \in TemplatesOf(gens[id], w[k]) :
                          /\ InRange(w[k].StartRPS, gens[id].patterns[p].StartRPS)
                          /\ InRange(w[k].EndRPS, gens[id].patterns[p].EndRPS)
                          /\ InRange(w[k].Step, gens[id].patterns[p].Step)

C19_Witness ==
    \E id \in DOMAIN gens :
        /\ Len(gens[id].results) > 0
        /\ gens[id].patterns # << >>
        /\ gens[id].patterns[1].StartRPS = <<5, 1>>
        /\ LET w == gens[id].results[1].workload
           IN  /\ Len(w) > 0
               /\ w[1].StartRPS \in 2..4
               /\ w[1].EndRPS = 2
               /\ w[1].Step < 0
        /\ getRandInt(gens[id].random, 3, 0 - 3).val \in {0 - 3, 3}

\* C20: a ramping phase with StartRPS = 0 starts at currentRPS = 1 (any other
\* StartRPS is taken as it is): until the first rate tick it runs at one burst
\* of one task per second, and when it lasts more than one second and is
\* neither stopped nor cancelled it has launched a task by the time it returns
C20_ZeroStartRPS ==
    \A p \in Idx :
        (phases[p].Type = "variable" /\ ex[p].pc # "sleep") =>
            /\ ex[p].pc \in {"loop", "returned"}
            /\ ex[p].first =>
                  /\ phases[p].StartRPS = 0 =>
                        /\ ex[p].currentRPS = 1
                        /\ ex[p].interval = Second
                        /\ ex[p].restRPS = 1
                  /\ phases[p].StartRPS > 0 => ex[p].currentRPS = phases[p].StartRPS
            /\ (/\ phases[p].StartRPS = 0
                /\ phases[p].Duration > 1000
                /\ ex[p].stopPc = "idle"
                /\ parent >= PhaseEnd(p)
                /\ ex[p].pc = "returned") => ex[p].launched >= 1

C20_Witness ==
    \E p \in Idx :
        /\ phases[p].Type = "variable"
        /\ phases[p].StartRPS = 0
        /\ phases[p].Duration = 2000
        /\ parent = NoDeadline
        /\ ex[p].stopPc = "idle"
        /\ ex[p].pc = "returned"
        /\ ex[p].launched >= 1
        /\ ex[p].lastLaunch >= ex[p].start + 1000

\* the rows the file holds after the header
FileRecords == { csv.file[k] : k \in 2..Len(csv.file) }

\* C21: when every Collect call returned before Close was called (and at least
\* one was made), then once Close has returned the file holds the header as its
\* first row and after it exactly one row per Collect call, whether or not a
\* periodic flush happened; and at no time does a record precede the header
C21_HeaderThenRecords ==
    /\ csv.file \o csv.buf # << >> =>
          /\ (csv.file \o csv.buf)[1] = "id,message,value"
          /\ \A k \in 2..Len(csv.file \o csv.buf) :
                (csv.file \o csv.buf)[k] # "id,message,value"
    /\ (/\ csv.closes >= 1
        /\ csv.started = csv.returnedAtClose
        /\ csv.started >= 1) =>
          /\ Len(csv.file) = 1 + csv.started
          /\ csv.file[1] = "id,message,value"
          /\ FileRecords =
                { CSVLine(CSVRecord(csv.returned[k][1], csv.returned[k][2])) :
                    k \in DOMAIN csv.returned }
          /\ Cardinality(FileRecords) = csv.started

C21_Witness ==
    /\ csv.closes = 1
    /\ ~csv.flushed
    /\ csv.started = 4
    /\ csv.returnedAtClose = 4
    /\ csv.file = <<CSVLine(CSVHeaders), CSVLine(CSVRecord(2, 0)), CSVLine(CSVRecord(1, 0)),
                     CSVLine(CSVRecord(2, 1)), CSVLine(CSVRecord(1, 1))>>

\* C22: every dispatch task calls GetData, then CallEndpoint, then Collect, once
\* each: at every moment #Collect <= #CallEndpoint <= #GetData <= tasks
\* launched, and once every launched task has finished all four are equal
C22_TaskPipeline ==
    /\ nCollect <= nCallEndpoint
    /\ nCallEndpoint <= nGetData
    /\ nGetData <= TotalLaunched
    /\ nCollect = TotalLaunched => (nCollect = nCallEndpoint /\ nCallEndpoint = nGetData)

C22_Witness ==
    /\ TotalLaunched = 3
    /\ nCollect = 3
    /\ nCallEndpoint = 3
    /\ ex[1].pc = "returned"

\* C23: Execute never waits for its dispatch tasks: whatever the tasks are
\* doing, a tick that is due can be taken (and in a constant phase every tick
\* due so far has been taken once the loop is waiting again), a stopping
\* condition that has fired can be taken, and an Execute that has returned did
\* so at the first instant one of its stopping conditions held
C23_NeverWaitsForTasks ==
    \A p \in Idx :
        /\ (~crashed /\ ex[p].pc = "loop" /\ phases[p].Type = "constant" /\ ex[p].t.pending) =>
              ENABLED ConstantTick(p)
        /\ (~crashed /\ ex[p].pc = "loop" /\ phases[p].Type = "variable" /\ Sel(ex[p]).pending) =>
              ENABLED RampingTick(p)
        /\ (~crashed /\ ex[p].pc = "loop" /\ (Done(ex[p]) \/ StopReady(ex[p]))) =>
              ENABLED (\/ ConstantDone(p) \/ ConstantStopped(p)
                       \/ RampingDone(p) \/ RampingStopped(p))
        /\ (ex[p].pc = "loop" /\ phases[p].Type = "constant" /\ ~Busy) =>
              ex[p].ticks = (now - ex[p].start) \div ex[p].t.period
        /\ ex[p].pc = "returned" =>
              ex[p].ret = Min2(ex[p].deadline,
                               IF ex[p].stopPc = "idle" THEN ex[p].deadline
                               ELSE Max2(ex[p].stopAt, ex[p].start))

C23_Witness ==
    \E p \in Idx :
        /\ phases[p].Type = "constant"
        /\ phases[p].StartRPS = 2
        /\ ex[p].pc = "returned"
        /\ ex[p].ret = 2000
        /\ ex[p].ticks = 3
        /\ ex[p].launched = 3
        /\ nGetData = 1
        /\ nCallEndpoint = 0

\* C24: in Run each phase starts at its own offset from the start of Run (time
\* 0): a phase that has not started has launched nothing, a phase that has
\* started did so exactly StartTime after Run began, so no dispatch task comes
\* before that, and a phase is never still waiting after its StartTime,
\* whatever the other phases are doing
C24_StartsAtOwnOffset ==
    \A p \in Idx :
        /\ ex[p].pc = "sleep" => (ex[p].launched = 0 /\ now <= phases[p].StartTime)
        /\ ex[p].pc # "sleep" => ex[p].start = phases[p].StartTime
        /\ ex[p].launched > 0 =>
              (now >= phases[p].StartTime /\ ex[p].lastLaunch > phases[p].StartTime)

C24_Witness ==
    /\ Len(phases) = 2
    /\ phases[1].StartTime = 500
    /\ phases[2].StartTime = 0
    /\ ex[1].pc = "loop"
    /\ ex[2].pc = "loop"
    /\ ex[1].start = 500
    /\ ex[1].launched > 0
    /\ ex[2].launched > 0

\* a step in which the rate-update goroutine of phase p takes a tick of t
RateTickTaken(p) ==
    /\ ex[p].ratePc = "loop"
    /\ ex[p].t.pending
    /\ ~ex'[p].t.pending
    /\ ex'[p].ratePc # "exited"

\* currentRPS of phase p has not reached EndRPS in the configured direction
NotReached(p) ==
    IF phases[p].Step > 0 THEN ex[p].currentRPS < phases[p].EndRPS
                          ELSE ex[p].currentRPS > phases[p].EndRPS

\* C25: the rate-update loop ticks once per second; its first tick leaves
\* currentRPS unchanged, every later tick adds Step exactly once if currentRPS
\* has not reached EndRPS in the configured direction and nothing otherwise,
\* and no other step changes currentRPS: once EndRPS is reached or passed
\* currentRPS never changes again
C25_RampStep ==
    [][\A p \in Idx :
          ex[p].ratePc # "none" =>
              /\ ex[p].ratePc = "loop" => ex[p].t.period = Second \div Millisecond
              /\ RateTickTaken(p) =>
                    ex'[p].currentRPS =
                        IF ~ex[p].first /\ NotReached(p)
                        THEN ex[p].currentRPS + phases[p].Step
                        ELSE ex[p].currentRPS
              /\ RateTickTaken(p) /\ ex[p].first => now = ex[p].start + Second \div Millisecond
              /\ ~RateTickTaken(p) => ex'[p].currentRPS = ex[p].currentRPS
              /\ ~NotReached(p) => ex'[p].currentRPS = ex[p].currentRPS]_vars

C25_Witness ==
    \E p \in Idx :
        /\ phases[p].StartRPS = 2 /\ phases[p].EndRPS = 0 /\ phases[p].Step = 0 - 3
        /\ ex[p].currentRPS = 0 - 1
        /\ ex[p].ratePc = "loop"
        /\ now = 3000
        /\ ex[p].t.next = 4000
        /\ ~ex[p].t.pending

\* the number of steps that take the ramp of phase p from StartRPS to EndRPS
StepCounts(p) ==
    { n \in 0..(phases[p].StartRPS + phases[p].EndRPS) :
          phases[p].StartRPS + n * phases[p].Step = phases[p].EndRPS }

\* the rate the claim gives to the k-th second of the ramp of phase p
ClaimRate(p, k) ==
    LET steps == CHOOSE n \in StepCounts(p) : TRUE
    IN  phases[p].StartRPS + Min2(k - 1, steps) * phases[p].Step

\* C26: during the k-th second of a ramping phase the rate is
\* StartRPS + (k-1) x Step until EndRPS is reached (1, 2, 3 rps in seconds 1, 2, 3
\* of the ramp 1 -> 3 by +1; 3, 2, 1 for 3 -> 1 by -1): whenever both loops are
\* waiting inside the k-th second, currentRPS and the dispatch ticker are those
\* of that rate
C26_RateOfSecond ==
    \A p \in Idx :
        (/\ phases[p].Type = "variable"
         /\ phases[p].StartRPS > 0
         /\ StepCounts(p) # {}
         /\ ex[p].pc = "loop"
         /\ ex[p].ratePc = "loop"
         /\ ex[p].stopPc = "idle"
         /\ ~Busy) =>
            LET k == (now - ex[p].start) \div (Second \div Millisecond) + 1
            IN  /\ ex[p].currentRPS = ClaimRate(p, k)
                /\ ex[p].subt.period = ClaimInterval(ClaimRate(p, k))

\* C27: at every moment of a ramping phase currentRPS lies between StartRPS and
\* EndRPS inclusive (a StartRPS of 0 counting as the 1 it is raised to): the
\* ramp stops at EndRPS and never passes it, whatever the step
C27_RampWithinEnds ==
    \A p \in Idx :
        (phases[p].Type = "variable" /\ ex[p].ratePc # "none") =>
            LET s == InitialRPS(phases[p].StartRPS)
            IN  /\ ex[p].currentRPS >= Min2(s, phases[p].EndRPS)
                /\ ex[p].currentRPS <= Max2(s, phases[p].EndRPS)

\* C28: for every phase with StartRPS >= 0 and EndRPS >= 0 neither Execute calls
\* calculateInterval with a rate <= 0 (the call divides by the rate): no
\* executor has panicked in it
C28_NoNonPositiveRate ==
    \A p \in Idx :
        phases[p].Type \in {"constant", "variable"} => ex[p].pc # "panicked"

\* C29: once a ramp's currentRPS has become <= 0, no further dispatch task is
\* launched for the rest of the phase, and Execute keeps running until one of
\* its stopping conditions fires
C29_NoLaunchAtNonPositiveRate ==
    [][\A p \in Idx :
          (phases[p].Type = "variable" /\ ex[p].ratePc # "none" /\ ex[p].currentRPS <= 0) =>
              /\ ex'[p].launched = ex[p].launched
              /\ (ex[p].pc = "loop" /\ ex'[p].pc = "returned") =>
                    (Done(ex[p]) \/ StopReady(ex[p]))]_vars

\* C30: RampingExecutor.Execute returns only once both of its loops have ended:
\* when Execute has returned, the rate-update goroutine has exited
C30_BothLoopsEnded ==
    \A p \in Idx :
        (phases[p].Type = "variable" /\ ex[p].pc = "returned") => ex[p].ratePc = "exited"

\* C31: after the rate-update loop has set a rate r > 0 and its ticker, the
\* dispatch loop switches to it: it takes at most one more tick of the
\* previous ticker, and from then until the next update every burst has
\* perTickCount(r) tasks and consecutive bursts are tickInterval(r) apart
C31_SwitchesToNewRate ==
    \A p \in Idx :
        (/\ phases[p].Type = "variable"
         /\ ex[p].pc = "loop"
         /\ ex[p].ratePc = "loop"
         /\ ex[p].currentRPS > 0) =>
            /\ ex[p].oldTicks <= 1
            /\ ex[p].newBursts >= 1 => ex[p].lastSize = ClaimPerTick(ex[p].currentRPS)
            /\ ex[p].newBursts >= 2 =>
                  ex[p].lastLaunch - ex[p].prevLaunch = ClaimInterval(ex[p].currentRPS)

\* C32: the ramp state shared by the two loops is accessed under
\* synchronization: while the rate-update loop is between its writes (restRPS
\* and interval written, subt not yet) the dispatch loop cannot run a burst,
\* and every burst uses a per-tick count and a ticker derived from one and the
\* same rate of the ramp
C32_RampStateSynchronised ==
    \A p \in Idx :
        phases[p].Type = "variable" =>
            /\ (ex[p].ratePc = "newticker" /\ ex[p].pc = "loop") => ~ENABLED RampingTick(p)
            /\ ex[p].lastSize > 0 =>
                  \E n \in 0..MaxSeconds :
                      LET r == InitialRPS(phases[p].StartRPS) + n * phases[p].Step
                      IN  /\ r > 0
                          /\ ex[p].lastPeriod = ClaimInterval(r)
                          /\ ex[p].lastSize = ClaimPerTick(r)

\* C33: a ConstantExecutor that a Stop has ended can be reused: a later
\* Execute(ctx, phase2) on it runs phase2 for its duration and dispatches its
\* requests
C33_ReusableAfterStop ==
    \A p \in Idx :
        (ex[p].reused /\ ex[p].pc = "returned") =>
            /\ ex[p].ret = PhaseEnd(p)
            /\ phases[p].StartRPS >= 2 => ex[p].lastLaunch > ex[p].start

\* the source after n draws
RECURSIVE Skip(_, _)
Skip(s, n) == IF n = 0 THEN s ELSE Skip(PCGNext(s), n - 1)

\* the draws generator g had made before its a-th call
RECURSIVE DrawnBefore(_, _)
DrawnBefore(g, a) == IF a = 1 THEN 0 ELSE DrawnBefore(g, a - 1) + g.results[a - 1].drawn

\* C34: each generated phase is classified by one uniform draw u in [0,1), the
\* one that follows the draws made before it (one per template for the phase
\* count, four per earlier phase): "constant" if u < ConstantLikelihood and
\* "variable" otherwise, whatever RampingLikelihood is; so likelihood 1.0
\* gives only constant phases and likelihood 0 only variable ones
C34_OneDrawClassifies ==
    \A id \in DOMAIN gens :
        \A a \in DOMAIN gens[id].results :
            LET g == gens[id]
                w == g.results[a].workload
            IN  /\ \A k \in DOMAIN w :
                      \A p \in TemplatesOf(g, w[k]) :
                          LET u == Uint(Skip(NewPCG(g.seed),
                                             DrawnBefore(g, a) + p + 4 * (k - 1) + 1))
                          IN  /\ u \in 0..(RandOut - 1)
                              /\ w[k].Type = IF u * 10 < g.patterns[p].ConstantLikelihood * RandOut
                                              THEN "constant" ELSE "variable"
                              /\ g.patterns[p].ConstantLikelihood = 10 => w[k].Type = "constant"
                              /\ g.patterns[p].ConstantLikelihood = 0 => w[k].Type = "variable"
                /\ g.results[a].err = "" =>
                      g.results[a].drawn = Len(g.patterns) + 4 * Len(w)

C34_Witness ==
    \E id \in DOMAIN gens :
        /\ Len(gens[id].results) = 1
        /\ Len(gens[id].patterns) = 2
        /\ gens[id].patterns[1].ConstantLikelihood = 5
        /\ gens[id].patterns[1].RampingLikelihood = 2
        /\ LET w == gens[id].results[1].workload
           IN  \E k, l \in DOMAIN w : w[k].Type = "constant" /\ w[l].Type = "variable"

\* the phase count drawn for template p in the a-th call of generator g, and
\* the phases generated before those of template p, replayed from the seed
RECURSIVE CountOf(_, _, _)
RECURSIVE PhasesBefore(_, _, _)
PhasesBefore(g, a, p) ==
    IF p = 1 THEN 0 ELSE PhasesBefore(g, a, p - 1) + CountOf(g, a, p - 1)

CountOf(g, a, p) ==
    getRandInt(Skip(NewPCG(g.seed), DrawnBefore(g, a) + (p - 1) + 4 * PhasesBefore(g, a, p)),
               g.patterns[p].PhaseCount[1], g.patterns[p].PhaseCount[2]).val

\* C35: for each template the number of generated phases is one draw from its
\* PhaseCount range (inclusive), every phase of the template has
\* Duration = allocatedTime / phaseCount, and its phases are named
\* "<templateName>_<i>", i = 0 .. phaseCount-1, in order
C35_CountDurationName ==
    \A id \in DOMAIN gens :
        \A a \in DOMAIN gens[id].results :
            LET g == gens[id]
                w == g.results[a].workload
                n == Len(g.patterns)
            IN  g.results[a].err = "" =>
                  /\ Len(w) = PhasesBefore(g, a, n + 1)
                  /\ \A p \in 1..n :
                        /\ InRange(CountOf(g, a, p), g.patterns[p].PhaseCount)
                        /\ \A i \in 0..(CountOf(g, a, p) - 1) :
                              LET ph == w[PhasesBefore(g, a, p) + i + 1]
                              IN  /\ ph.Name = g.patterns[p].Name \o "_" \o Itoa(i)
                                  /\ ph.Duration = DurDiv(g.patterns[p].totalTime,
                                                          CountOf(g, a, p))

C35_Witness ==
    \E id \in DOMAIN gens :
        /\ Len(gens[id].results) = 1
        /\ Len(gens[id].patterns) = 2
        /\ gens[id].patterns[1].PhaseCount = <<2, 3>>
        /\ gens[id].patterns[1].Name = "second"
        /\ LET w == gens[id].results[1].workload
           IN  /\ Len(w) = 5
               /\ w[2].Name = "second_1"
               /\ w[3].Name = "first_0"
               /\ w[5].Name = "first_2"
               /\ w[2].Duration # w[3].Duration

\* C36: every phase returned by a successful GenerateWorkload satisfies the
\* Phase data model: StartTime >= 0 and Duration > 0, for every accepted weight
\* assignment and every drawn phase count
C36_PhaseDataModel ==
    \A id \in DOMAIN gens :
        \A a \in DOMAIN gens[id].results :
            gens[id].results[a].err = "" =>
                \A k \in DOMAIN gens[id].results[a].workload :
                    LET ph == gens[id].results[a].workload[k]
                    IN  /\ ph.StartTime[1] >= 0
                        /\ ph.StartTime[2] >= 0
                        /\ ph.Duration[1] > 0 \/ (ph.Duration[1] = 0 /\ ph.Duration[2] > 0)

\* a <= b for durations
DurLeq(a, b) == a[1] < b[1] \/ (a[1] = b[1] /\ a[2] <= b[2])

\* the summed Duration of the first n phases of w
RECURSIVE SumDurations(_, _)
SumDurations(w, n) ==
    IF n = 0 THEN <<0, 0>> ELSE DurAdd(SumDurations(w, n - 1), w[n].Duration)

\* C37: a generated schedule fits inside the run: the durations of all phases
\* of a successful generation sum to at most maxDuration, and every phase ends
\* (StartTime + Duration) no later than maxDuration
C37_FitsInsideRun ==
    /\ \A id \in DOMAIN gens :
        \A a \in DOMAIN gens[id].results :
            LET w == gens[id].results[a].workload
            IN  gens[id].results[a].err = "" =>
                  /\ DurLeq(SumDurations(w, Len(w)), gens[id].maxDuration)
                  /\ \A k \in DOMAIN w :
                        DurLeq(DurAdd(w[k].StartTime, w[k].Duration), gens[id].maxDuration)
    /\ (long.called /\ long.err = "") =>
          \A k \in DOMAIN long.workload :
              LongLeq(LongAdd(long.workload[k].StartTime, long.workload[k].Duration),
                      LongMaxDuration)

\* C38: Stop completes only by handing its signal to a running loop of the
\* executor: a Stop call starts in its send and leaves it only in a step in
\* which a loop of that executor (the loop of Execute or the rate-update loop)
\* was running and ends by receiving it; only then does Stop close the channel
\* and return; with no loop running the call stays blocked
C38_StopNeedsReceiver ==
    [][\A p \in Idx :
          /\ (ex[p].stopPc = "sending" /\ ex'[p].stopPc # "sending") =>
                \/ ex[p].pc = "loop" /\ ex'[p].pc = "returned"
                \/ ex[p].ratePc = "loop" /\ ex'[p].ratePc = "exited"
          /\ (ex[p].stopPc = "idle" /\ ex'[p].stopPc # "idle") => ex'[p].stopPc = "sending"
          /\ (ex[p].stopPc = "closing" /\ ex'[p].stopPc # "closing") =>
                ex'[p].stopPc = "returned"]_vars

C38_Witness ==
    \E p \in Idx :
        /\ phases[p].Type = "variable"
        /\ ~ex[p].stopWhile
        /\ ex[p].stopAt = 0
        /\ ex[p].stopPc = "returned"
        /\ ex[p].pc = "returned"
        /\ ex[p].ratePc = "exited"
        /\ ex[p].launched = 0

\* C39: GenerateWorkload returns a phase list or an error for every pattern
\* list: no generation ends in a division by zero, and a call that returned
\* an error returned no phases
C39_ListOrError ==
    /\ ~crashed
    /\ \A id \in DOMAIN gens :
          \A a \in DOMAIN gens[id].results :
              gens[id].results[a].err # "" => gens[id].results[a].workload = << >>

\* C40: Run only calls Execute on an executor it has instantiated: no phase
\* task of a configuration that NewEndpointWorkload accepts has a Type for
\* which Run creates no executor and dereferences a nil executor
C40_NoNilExecutor ==
    \A p \in Idx :
        phases[p].Type \notin {"constant", "variable"} => ex[p].pc # "panicked"

====
